---------------------------- MODULE Spec2Model ----------------------------
(***************************************************************************)
(* A model of PySysTray's GTK status icon: the property-driven Icon of     *)
(* _base.py, the GtkIcon helper of _util/gtk.py (main-loop marshaling,     *)
(* ready gate, temporary icon file) and the Gtk.StatusIcon backend of      *)
(* _gtk.py.                                                                *)
(*                                                                         *)
(* Threads: the main thread (constructs the icon, calls run, owns the      *)
(* GLib main loop and executes idle callbacks and click handlers), one     *)
(* setup thread per run call, and application threads calling the public   *)
(* API.  Python switches threads between bytecodes, so every API method is *)
(* stepped one shared access at a time.                                    *)
(***************************************************************************)
EXTENDS Naturals, Sequences, FiniteSets

(* ------------------------------ bounds --------------------------------- *)
MaxRuns == 2          \* calls of run() by the main thread
MaxCalls == 2         \* API calls made by application threads, in total
MaxClicks == 1        \* click events delivered to the status icon
MaxUnlinkFail == 1    \* os.unlink failures injected
MaxNativeErr == 1     \* native toolkit errors injected

(* ------------------------------ values --------------------------------- *)
NoIcon == "None"                       \* icon = None
Images == {"img1", "img2"}             \* PIL images
Titles == {"", "A", "B"}               \* icon titles ('' is the default)
NoTitle == "None"                      \* notify(message, title=None)
NotifyTitles == {NoTitle, "", "T"}      \* notify's title argument
Messages == {"hello"}
NoPath == 0                            \* _icon_path = None
NoThread == 0                          \* no _setup_thread attribute yet

(* ------------------------------ threads -------------------------------- *)
Main == 100                            \* the thread that calls run()
SetupThreads == 1..MaxRuns             \* setup thread of the n-th run
AppThreads == {101, 102}
Threads == {Main} \cup SetupThreads \cup AppThreads
Paths == 1..(MaxUnlinkFail + 2)        \* names tempfile.mktemp can return

VARIABLES
  \* _base.Icon attributes
  icon, title, visible, icon_valid, running, ready_queue, setup_thread,
  \* GtkIcon attributes
  loop, icon_path, notifier,
  \* the environment: GLib idle sources, the filesystem, the native status
  \* icon, the notification service
  idle, files, status_icon, notification,
  \* threads: position, locals of the API call in progress, its outcome
  pc, frame, err, setup,
  \* history: what a call scheduled, whether another call overlapped it, the
  \* attributes when it began; idle-source tickets; exceptions discarded
  sched, clean, pre, next_id, last_ran, n_ran, swallowed, n_ready,
  \* budgets
  n_runs, n_calls, n_clicks, n_unlink_fail, n_native_err

baseVars == <<icon, title, visible, icon_valid, running, ready_queue, setup_thread>>
gtkVars == <<loop, icon_path, notifier>>
envVars == <<files, status_icon, notification>>
threadVars == <<pc, frame, err, setup>>
histVars == <<sched, clean, pre, next_id, last_ran, n_ran, swallowed, n_ready>>
budgetVars == <<n_runs, n_calls, n_clicks, n_unlink_fail, n_native_err>>
vars == <<baseVars, gtkVars, idle, envVars, threadVars, histVars, budgetVars>>

NoFrame == [op |-> "none", val |-> "", msg |-> "", flag |-> FALSE, jt |-> NoThread]
NoPre == [icon |-> NoIcon, title |-> "", visible |-> FALSE]

\* Labels of the public API's steps; "ret" is the state on return.
ApiLabels == {"icon_store", "icon_inval", "icon_branch", "icon_upd",
              "title_cmp", "title_store", "title_branch", "title_upd",
              "vis_cmp", "vis_chk_icon", "vis_chk_valid", "vis_upd",
              "vis_show", "vis_set_true", "vis_hide", "vis_set_false",
              "notify", "remove", "stop_post", "stop_ident", "stop_join",
              "stop_clear", "ret"}

InCall(t) == pc[t] \in ApiLabels

(* Icon.__init__ (_base.py 79-97), GtkIcon.__init__ (gtk.py 59-63) and      *)
(* _gtk.Icon.__init__ (_gtk.py 28-38): the icon is hidden, nothing runs;    *)
(* with an image given the constructor calls _update_icon, which is queued. *)
Init ==
  /\ icon \in {NoIcon, "img1"}
  /\ title \in {"", "A"}
  /\ visible = FALSE
  /\ icon_valid = FALSE
  /\ running = FALSE
  /\ ready_queue = 0
  /\ setup_thread = NoThread
  /\ loop = "none"
  /\ icon_path = NoPath
  /\ notifier = FALSE
  /\ idle = IF icon # NoIcon THEN <<[op |-> "update_icon", val |-> "", msg |-> "", id |-> 1]>>
                             ELSE <<>>
  /\ files = [p \in Paths |-> "absent"]
  /\ status_icon = [visible |-> FALSE, file |-> NoPath, title |-> ""]
  /\ notification = [shown |-> FALSE, title |-> "", msg |-> "", icon |-> NoPath]
  /\ pc = [t \in Threads |-> IF t \in SetupThreads THEN "unborn" ELSE "idle"]
  /\ frame = [t \in Threads |-> NoFrame]
  /\ err = [t \in Threads |-> "none"]
  /\ setup = [t \in SetupThreads |-> "default"]
  /\ sched = [t \in Threads |-> <<>>]
  /\ clean = [t \in Threads |-> TRUE]
  /\ pre = [t \in Threads |-> NoPre]
  /\ next_id = IF icon # NoIcon THEN 2 ELSE 1
  /\ last_ran = 0
  /\ n_ran = 0
  /\ swallowed = 0
  /\ n_ready = 0
  /\ n_runs = 0
  /\ n_calls = 0
  /\ n_clicks = 0
  /\ n_unlink_fail = 0
  /\ n_native_err = 0


(* ----------------------------- helpers --------------------------------- *)
Goto(t, l) == pc' = [pc EXCEPT ![t] = l]

\* A public method is entered by thread t: its locals are fresh, and the
\* history records the attributes it starts from and whether it overlaps
\* another thread's call.
Begin(t, f, l) ==
  /\ pc' = [pc EXCEPT ![t] = l]
  /\ frame' = [frame EXCEPT ![t] = f]
  /\ err' = [err EXCEPT ![t] = "none"]
  /\ sched' = [sched EXCEPT ![t] = <<>>]
  /\ pre' = [pre EXCEPT ![t] = [icon |-> icon, title |-> title, visible |-> visible]]
  /\ clean' = [u \in Threads |->
                 IF u = t THEN \A w \in Threads \ {t} : ~InCall(w)
                 ELSE IF InCall(u) THEN FALSE ELSE clean[u]]

EntryLabel(op) ==
  CASE op = "icon" -> "icon_store"
    [] op = "title" -> "title_cmp"
    [] op = "visible" -> "vis_cmp"
    [] op = "notify" -> "notify"
    [] op = "remove_notification" -> "remove"
    [] op = "stop" -> "stop_post"

\* A backend in which _show lacks the @mainloop decorator: its body runs in
\* the calling thread.
MarshalDirect(t, op, val, msg) ==
  IF op = "show"
    THEN /\ status_icon' = [status_icon EXCEPT !.visible = TRUE]
         /\ sched' = [sched EXCEPT ![t] = Append(@, op)]
         /\ UNCHANGED <<idle, next_id>>
    ELSE /\ idle' = Append(idle, [op |-> op, val |-> val, msg |-> msg, id |-> next_id])
         /\ next_id' = next_id + 1
         /\ sched' = [sched EXCEPT ![t] = Append(@, op)]
         /\ UNCHANGED status_icon

\* GObject.idle_add(callback, ...) of mainloop.inner (gtk.py 53): the call is
\* attached to the default main context as a new idle source, behind the
\* sources already attached; nothing of f runs on the calling thread.
mainloop(t, op, val, msg) ==
  /\ idle' = Append(idle, [op |-> op, val |-> val, msg |-> msg, id |-> next_id])
  /\ next_id' = next_id + 1
  /\ sched' = [sched EXCEPT ![t] = Append(@, op)]
  /\ UNCHANGED status_icon

\* A step of thread t that only calls a @mainloop method.
MarshalStep(t, op, val, msg, l) ==
  /\ mainloop(t, op, val, msg)
  /\ Goto(t, l)
  /\ UNCHANGED <<baseVars, gtkVars, files, notification, frame, err, setup,
                 clean, pre, last_ran, n_ran, swallowed, n_ready, budgetVars>>

\* A step of thread t that touches no attribute but its own position.
LocalStep(t, l) ==
  /\ Goto(t, l)
  /\ UNCHANGED <<baseVars, gtkVars, idle, envVars, frame, err, setup, histVars, budgetVars>>

(* ------------------- Icon.icon setter (_base.py 118-127) ---------------- *)
icon_store(t) ==
  /\ pc[t] = "icon_store"
  /\ icon' = frame[t].val
  /\ Goto(t, "icon_inval")
  /\ UNCHANGED <<title, visible, icon_valid, running, ready_queue, setup_thread,
                 gtkVars, idle, envVars, frame, err, setup, histVars, budgetVars>>

\* self._icon_valid = False
icon_inval(t) ==
  /\ pc[t] = "icon_inval"
  /\ icon_valid' = FALSE
  /\ Goto(t, "icon_branch")
  /\ UNCHANGED <<icon, title, visible, running, ready_queue, setup_thread,
                 gtkVars, idle, envVars, frame, err, setup, histVars, budgetVars>>

\* The icon setter without its hide branch.
icon_branch_nohide(t) ==
  /\ pc[t] = "icon_branch"
  /\ LocalStep(t, IF visible /\ frame[t].val # NoIcon THEN "icon_upd" ELSE "ret")

\* if value: if self.visible: _update_icon()  else: if self.visible: self.visible = False
icon_branch(t) ==
  /\ pc[t] = "icon_branch"
  /\ LocalStep(t, IF ~visible THEN "ret"
                  ELSE IF frame[t].val # NoIcon THEN "icon_upd" ELSE "vis_cmp")

icon_upd(t) ==
  /\ pc[t] = "icon_upd"
  /\ MarshalStep(t, "update_icon", "", "", "ret")

(* ------------------ Icon.title setter (_base.py 135-140) ---------------- *)
\* The title setter without the comparison with the current title.
title_cmp_always(t) ==
  /\ pc[t] = "title_cmp"
  /\ LocalStep(t, "title_store")

\* if value != self._title:
title_cmp(t) ==
  /\ pc[t] = "title_cmp"
  /\ LocalStep(t, IF frame[t].val # title THEN "title_store" ELSE "ret")

title_store(t) ==
  /\ pc[t] = "title_store"
  /\ title' = frame[t].val
  /\ Goto(t, "title_branch")
  /\ UNCHANGED <<icon, visible, icon_valid, running, ready_queue, setup_thread,
                 gtkVars, idle, envVars, frame, err, setup, histVars, budgetVars>>

title_branch(t) ==
  /\ pc[t] = "title_branch"
  /\ LocalStep(t, IF visible THEN "title_upd" ELSE "ret")

title_upd(t) ==
  /\ pc[t] = "title_upd"
  /\ MarshalStep(t, "update_title", "", "", "ret")

(* ----------------- Icon.visible setter (_base.py 150-166) --------------- *)
\* The value being assigned: the caller's, or False when the icon setter
\* hides the icon (_base.py 127).
VisTarget(t) == IF frame[t].op = "visible" THEN frame[t].flag ELSE FALSE

\* if self._visible == value: return
vis_cmp(t) ==
  /\ pc[t] = "vis_cmp"
  /\ LocalStep(t, IF visible = VisTarget(t) THEN "ret"
                  ELSE IF VisTarget(t) THEN "vis_chk_icon" ELSE "vis_hide")

\* The visible setter without its check of the icon.
vis_chk_icon_nocheck(t) ==
  /\ pc[t] = "vis_chk_icon"
  /\ LocalStep(t, "vis_chk_valid")

\* if not self._icon: raise ValueError(...)
vis_chk_icon(t) ==
  /\ pc[t] = "vis_chk_icon"
  /\ IF icon = NoIcon
       THEN /\ err' = [err EXCEPT ![t] = "ValueError"]
            /\ Goto(t, "ret")
       ELSE /\ err' = err
            /\ Goto(t, "vis_chk_valid")
  /\ UNCHANGED <<baseVars, gtkVars, idle, envVars, frame, setup, histVars, budgetVars>>

\* if not self._icon_valid: self._update_icon()
vis_chk_valid(t) ==
  /\ pc[t] = "vis_chk_valid"
  /\ LocalStep(t, IF ~icon_valid THEN "vis_upd" ELSE "vis_show")

vis_upd(t) ==
  /\ pc[t] = "vis_upd"
  /\ MarshalStep(t, "update_icon", "", "", "vis_show")

vis_show(t) ==
  /\ pc[t] = "vis_show"
  /\ MarshalStep(t, "show", "", "", "vis_set_true")

vis_set_true(t) ==
  /\ pc[t] = "vis_set_true"
  /\ visible' = TRUE
  /\ Goto(t, "ret")
  /\ UNCHANGED <<icon, title, icon_valid, running, ready_queue, setup_thread,
                 gtkVars, idle, envVars, frame, err, setup, histVars, budgetVars>>

vis_hide(t) ==
  /\ pc[t] = "vis_hide"
  /\ MarshalStep(t, "hide", "", "", "vis_set_false")

vis_set_false(t) ==
  /\ pc[t] = "vis_set_false"
  /\ visible' = FALSE
  /\ Goto(t, "ret")
  /\ UNCHANGED <<icon, title, icon_valid, running, ready_queue, setup_thread,
                 gtkVars, idle, envVars, frame, err, setup, histVars, budgetVars>>

(* ------ Icon.notify, Icon.remove_notification (_base.py 222-242) -------- *)
notify(t) ==
  /\ pc[t] = "notify"
  /\ MarshalStep(t, "notify", frame[t].val, frame[t].msg, "ret")

remove_notification(t) ==
  /\ pc[t] = "remove"
  /\ MarshalStep(t, "remove_notification", "", "", "ret")

(* ----------------------- Icon.stop (_base.py 214-220) ------------------- *)
\* self._stop()
stop_post(t) ==
  /\ pc[t] = "stop_post"
  /\ MarshalStep(t, "stop", "", "", "stop_ident")

\* if self._setup_thread.ident != threading.current_thread().ident:
\* the attribute exists only once run has been called.
stop_ident(t) ==
  /\ pc[t] = "stop_ident"
  /\ IF setup_thread = NoThread
       THEN /\ err' = [err EXCEPT ![t] = "AttributeError"]
            /\ frame' = frame
            /\ Goto(t, "ret")
       ELSE /\ err' = err
            /\ IF setup_thread # t
                 THEN /\ frame' = [frame EXCEPT ![t].jt = setup_thread]
                      /\ Goto(t, "stop_join")
                 ELSE /\ frame' = frame
                      /\ Goto(t, "stop_clear")
  /\ UNCHANGED <<baseVars, gtkVars, idle, envVars, setup, histVars, budgetVars>>

\* stop without the wait of join.
stop_join_nowait(t) ==
  /\ pc[t] = "stop_join"
  /\ LocalStep(t, "stop_clear")

\* self._setup_thread.join(): returns once that thread has ended.
stop_join(t) ==
  /\ pc[t] = "stop_join"
  /\ pc[frame[t].jt] = "finished"
  /\ LocalStep(t, "stop_clear")

\* self._running = False
stop_clear(t) ==
  /\ pc[t] = "stop_clear"
  /\ running' = FALSE
  /\ Goto(t, "ret")
  /\ UNCHANGED <<icon, title, visible, icon_valid, ready_queue, setup_thread,
                 gtkVars, idle, envVars, frame, err, setup, histVars, budgetVars>>

\* The method returns (or its exception reaches the caller): an application
\* thread is free again, the setup thread ends, the main thread goes back to
\* the loop that delivered the click.
Return(t) ==
  /\ pc[t] = "ret"
  /\ Goto(t, IF t \in SetupThreads THEN "finished"
             ELSE IF t = Main THEN "loop" ELSE "idle")
  /\ frame' = [frame EXCEPT ![t] = NoFrame]
  /\ err' = [err EXCEPT ![t] = "none"]
  /\ sched' = [sched EXCEPT ![t] = <<>>]
  /\ pre' = [pre EXCEPT ![t] = NoPre]
  /\ clean' = [clean EXCEPT ![t] = TRUE]
  /\ UNCHANGED <<baseVars, gtkVars, idle, envVars, setup, next_id, last_ran,
                 n_ran, swallowed, n_ready, budgetVars>>

(* ------------------- application threads: the inputs -------------------- *)
Request(op, val, msg, flag) ==
  [op |-> op, val |-> val, msg |-> msg, flag |-> flag, jt |-> NoThread]

SetterRequests ==
  {Request("icon", v, "", FALSE) : v \in Images \cup {NoIcon}}
  \cup {Request("title", v, "", FALSE) : v \in Titles \ {""}}
  \cup {Request("visible", "", "", b) : b \in BOOLEAN}

NotifyRequests ==
  {Request("notify", v, m, FALSE) : v \in NotifyTitles, m \in Messages}
  \cup {Request("remove_notification", "", "", FALSE)}

StopRequests == {Request("stop", "", "", FALSE)}

\* An application thread calls a public method of the icon.
Call(t, f) ==
  /\ pc[t] = "idle"
  /\ n_calls < MaxCalls
  /\ Begin(t, f, EntryLabel(f.op))
  /\ n_calls' = n_calls + 1
  /\ UNCHANGED <<baseVars, gtkVars, idle, envVars, setup, next_id, last_ran,
                 n_ran, swallowed, n_ready, n_runs, n_clicks,
                 n_unlink_fail, n_native_err>>

(* --------- the setup thread: Icon._start_setup (_base.py 322-335) ------- *)
SetupKinds == {"default", "notify", "stop"}

\* The setup handler without the wait for the ready token.
setup_handler_nowait(s) ==
  /\ pc[s] = "waiting"
  /\ ready_queue' = IF ready_queue > 0 THEN ready_queue - 1 ELSE 0
  /\ Goto(s, "setup_call")
  /\ UNCHANGED <<icon, title, visible, icon_valid, running, setup_thread,
                 gtkVars, idle, envVars, frame, err, setup, histVars, budgetVars>>

\* self.__queue.get(): blocks until a ready token is in the queue.
setup_handler_get(s) ==
  /\ pc[s] = "waiting"
  /\ ready_queue > 0
  /\ ready_queue' = ready_queue - 1
  /\ Goto(s, "setup_call")
  /\ UNCHANGED <<icon, title, visible, icon_valid, running, setup_thread,
                 gtkVars, idle, envVars, frame, err, setup, histVars, budgetVars>>

\* if setup: setup(self)  else: self.visible = True
\* A user-supplied callback is one that notifies or one that stops the icon.
SetupRequest(kind) ==
  CASE kind = "default" -> [NoFrame EXCEPT !.op = "visible", !.flag = TRUE]
    [] kind = "notify" -> [NoFrame EXCEPT !.op = "notify", !.val = NoTitle, !.msg = "hello"]
    [] kind = "stop" -> [NoFrame EXCEPT !.op = "stop"]

setup_handler_call(s) ==
  /\ pc[s] = "setup_call"
  /\ Begin(s, SetupRequest(setup[s]), EntryLabel(SetupRequest(setup[s]).op))
  /\ UNCHANGED <<baseVars, gtkVars, idle, envVars, setup, next_id, last_ran,
                 n_ran, swallowed, n_ready, budgetVars>>

(* ------ the main thread: Icon.run (_base.py 168-183), GtkIcon._run ------ *)
\* self._start_setup(setup): the thread is created, stored and started;
\* then _run begins: self._loop = GLib.MainLoop.new(None, False).
run(kind) ==
  /\ pc[Main] \in {"idle", "host", "raised"}
  /\ n_runs < MaxRuns
  /\ n_runs' = n_runs + 1
  /\ setup_thread' = n_runs + 1
  /\ setup' = [setup EXCEPT ![n_runs + 1] = kind]
  /\ pc' = [pc EXCEPT ![Main] = "run_init", ![n_runs + 1] = "waiting"]
  /\ loop' = "new"
  /\ UNCHANGED <<icon, title, visible, icon_valid, running, ready_queue,
                 icon_path, notifier, idle, envVars, frame, err, histVars,
                 n_calls, n_clicks, n_unlink_fail, n_native_err>>

\* _mark_ready without the token.
mark_ready_noput ==
  /\ running' = TRUE
  /\ ready_queue' = ready_queue
  /\ n_ready' = n_ready + 1

\* _mark_ready (_base.py 244-254): self._running = True; self.__queue.put(True)
mark_ready ==
  /\ running' = TRUE
  /\ ready_queue' = ready_queue + 1
  /\ n_ready' = n_ready + 1

\* An _initialize that does not mark the icon ready.
initialize_noready ==
  /\ pc[Main] = "run_init"
  /\ notifier' = TRUE
  /\ Goto(Main, "run_loop")
  /\ UNCHANGED <<baseVars, loop, icon_path, idle, envVars, frame, err, setup,
                 histVars, budgetVars>>

\* _initialize (gtk.py 81-92): the notifier is created, then _mark_ready().
initialize ==
  /\ pc[Main] = "run_init"
  /\ notifier' = TRUE
  /\ mark_ready
  /\ Goto(Main, "run_loop")
  /\ UNCHANGED <<icon, title, visible, icon_valid, setup_thread, loop, icon_path,
                 idle, envVars, frame, err, setup, sched, clean, pre, next_id,
                 last_ran, n_ran, swallowed, budgetVars>>

\* Icon.run_detached (_base.py 185-212): self._start_setup(setup); no loop
\* is created, self._loop keeps its value.
run_detached(kind) ==
  /\ pc[Main] \in {"idle", "host", "raised"}
  /\ n_runs < MaxRuns
  /\ n_runs' = n_runs + 1
  /\ setup_thread' = n_runs + 1
  /\ setup' = [setup EXCEPT ![n_runs + 1] = kind]
  /\ pc' = [pc EXCEPT ![Main] = "det_init", ![n_runs + 1] = "waiting"]
  /\ UNCHANGED <<icon, title, visible, icon_valid, running, ready_queue,
                 gtkVars, idle, envVars, frame, err, histVars,
                 n_calls, n_clicks, n_unlink_fail, n_native_err>>

\* A _run_detached that creates and enters a loop of its own, as _run does.
run_detached_blocking ==
  /\ pc[Main] = "det_init"
  /\ notifier' = TRUE
  /\ mark_ready
  /\ loop' = "new"
  /\ Goto(Main, "run_loop")
  /\ UNCHANGED <<icon, title, visible, icon_valid, setup_thread, icon_path,
                 idle, envVars, frame, err, setup, sched, clean, pre, next_id,
                 last_ran, n_ran, swallowed, budgetVars>>

\* _run_detached (gtk.py 77-79): self._initialize(), then _finalize is
\* registered with atexit, and run_detached returns to the host application.
run_detached_initialize ==
  /\ pc[Main] = "det_init"
  /\ notifier' = TRUE
  /\ mark_ready
  /\ Goto(Main, "host")
  /\ UNCHANGED <<icon, title, visible, icon_valid, setup_thread, loop, icon_path,
                 idle, envVars, frame, err, setup, sched, clean, pre, next_id,
                 last_ran, n_ran, swallowed, budgetVars>>

\* _initialize when notify_dbus.Notifier() raises (gtk.py 91, no session
\* bus to connect to): the error leaves _initialize before _mark_ready and,
\* _initialize being called outside the try block of _run (gtk.py 67),
\* leaves run or run_detached: no loop runs, _finalize is neither run nor
\* registered, and the caller receives the exception.
initialize_fail ==
  /\ pc[Main] \in {"run_init", "det_init"}
  /\ n_native_err < MaxNativeErr
  /\ n_native_err' = n_native_err + 1
  /\ err' = [err EXCEPT ![Main] = "InitError"]
  /\ Goto(Main, "raised")
  /\ UNCHANGED <<baseVars, gtkVars, idle, envVars, frame, setup, histVars,
                 n_runs, n_calls, n_clicks, n_unlink_fail>>

\* The host application enters its own GLib main loop on the default
\* context, where the idle sources are attached.
host_loop_run ==
  /\ pc[Main] = "host"
  /\ Goto(Main, "loop")
  /\ UNCHANGED <<baseVars, gtkVars, idle, envVars, frame, err, setup,
                 histVars, budgetVars>>

\* self._loop.run()
loop_run ==
  /\ pc[Main] = "run_loop"
  /\ loop' = "running"
  /\ Goto(Main, "loop")
  /\ UNCHANGED <<baseVars, icon_path, notifier, idle, envVars, frame, err, setup,
                 histVars, budgetVars>>

(* ------------- the GLib main loop, on the main thread ------------------- *)
\* callback of mainloop (gtk.py 44-50): "try: f(...) finally: return False".
\* Returning False detaches the idle source: it is dispatched once.
CallbackReturnsTrue(q) == q

callback(q) == Tail(q)

\* _stop's body (gtk.py 104-105): "if self._loop is not None:
\* self._loop.quit()".  quit() ends the run() in progress on that loop.
quit_noop(l) == l

quit(l) == IF l = "running" THEN "quit" ELSE l

\* The idle source at the head is dispatched on the loop's thread.
Ran(h) ==
  /\ last_ran' = h.id
  /\ n_ran' = n_ran + 1

\* A _notify that passes its title argument on as it is.
title_as_given(val) == val

\* "title or self.title" of _notify (gtk.py 96): None and '' are both false,
\* and the icon's title is read when the callback runs.
title_or_self(val) == IF val \in {NoTitle, ""} THEN title ELSE val

\* The bodies of the one-statement backend methods: _show, _hide and
\* _update_title (_gtk.py 40-46, 54-56), _notify, _remove_notification and
\* _stop (gtk.py 94-105).  An AttributeError on a missing notifier leaves f
\* through the callback's "finally: return False", which discards it.
Body(h) ==
  CASE h.op = "show" ->
         /\ status_icon' = [status_icon EXCEPT !.visible = TRUE]
         /\ UNCHANGED <<notification, loop, swallowed>>
    [] h.op = "hide" ->
         /\ status_icon' = [status_icon EXCEPT !.visible = FALSE]
         /\ UNCHANGED <<notification, loop, swallowed>>
    [] h.op = "update_title" ->
         /\ status_icon' = [status_icon EXCEPT !.title = title]
         /\ UNCHANGED <<notification, loop, swallowed>>
    [] h.op = "notify" ->
         /\ IF notifier
              THEN /\ notification' =
                        [shown |-> TRUE,
                         title |-> title_or_self(h.val),
                         msg |-> h.msg, icon |-> icon_path]
                   /\ swallowed' = swallowed
              ELSE /\ notification' = notification
                   /\ swallowed' = swallowed + 1
         /\ UNCHANGED <<status_icon, loop>>
    [] h.op = "remove_notification" ->
         /\ IF notifier
              THEN /\ notification' = [notification EXCEPT !.shown = FALSE]
                   /\ swallowed' = swallowed
              ELSE /\ notification' = notification
                   /\ swallowed' = swallowed + 1
         /\ UNCHANGED <<status_icon, loop>>
    [] h.op = "stop" ->
         /\ loop' = quit(loop)
         /\ UNCHANGED <<status_icon, notification, swallowed>>

\* The main thread is inside a main loop of the default context: the one
\* run started, or the host's own after run_detached.
Looping == pc[Main] = "loop" /\ loop \in {"running", "quit", "none", "exited"}

Dispatch ==
  /\ Looping
  /\ idle # <<>>
  /\ Head(idle).op # "update_icon"
  /\ Body(Head(idle))
  /\ Ran(Head(idle))
  /\ idle' = callback(idle)
  /\ UNCHANGED <<baseVars, icon_path, notifier, files, threadVars,
                 sched, clean, pre, next_id, n_ready, budgetVars>>

\* The native call of a backend method raises (a toolkit or D-Bus error):
\* the callback's "finally: return False" discards the exception.
DispatchRaise ==
  /\ Looping
  /\ idle # <<>>
  /\ Head(idle).op \in {"show", "hide", "update_title", "notify", "remove_notification"}
  /\ n_native_err < MaxNativeErr
  /\ n_native_err' = n_native_err + 1
  /\ swallowed' = swallowed + 1
  /\ Ran(Head(idle))
  /\ idle' = callback(idle)
  /\ UNCHANGED <<baseVars, gtkVars, envVars, threadVars, sched, clean, pre,
                 next_id, n_ready, n_runs, n_calls, n_clicks, n_unlink_fail>>

(* ---- _update_icon (_gtk.py 48-52) and the temporary file (gtk.py 111-133) *)
\* tempfile.mktemp(): a name no file has.
mktemp == CHOOSE p \in Paths : files[p] = "absent" /\ \A q \in Paths : q < p => files[q] # "absent"

\* An _update_icon that forgets the old file instead of unlinking it.
remove_fs_icon_keep ==
  /\ icon_path' = NoPath
  /\ icon_valid' = FALSE
  /\ UNCHANGED <<files, n_unlink_fail>>

\* _remove_fs_icon: the file is unlinked and _icon_path cleared; _icon_valid
\* is cleared in every case.
remove_fs_icon ==
  /\ IF icon_path = NoPath
       THEN UNCHANGED <<files, icon_path>>
       ELSE /\ files' = [files EXCEPT ![icon_path] = "absent"]
            /\ icon_path' = NoPath
  /\ icon_valid' = FALSE
  /\ UNCHANGED n_unlink_fail

\* _remove_fs_icon when os.unlink raises: "except: pass" discards the error
\* before _icon_path is cleared, and the file stays.
remove_fs_icon_fail ==
  /\ icon_path # NoPath
  /\ n_unlink_fail < MaxUnlinkFail
  /\ n_unlink_fail' = n_unlink_fail + 1
  /\ icon_valid' = FALSE
  /\ UNCHANGED <<files, icon_path>>

\* The _update_icon source is dispatched: self._remove_fs_icon()
update_icon_remove ==
  /\ Looping
  /\ idle # <<>>
  /\ Head(idle).op = "update_icon"
  /\ Ran(Head(idle))
  /\ remove_fs_icon
  /\ Goto(Main, "upd_save")
  /\ UNCHANGED <<icon, title, visible, running, ready_queue, setup_thread,
                 loop, notifier, idle, status_icon, notification, frame, err, setup,
                 sched, clean, pre, next_id, swallowed, n_ready,
                 n_runs, n_calls, n_clicks, n_native_err>>

update_icon_remove_fail ==
  /\ Looping
  /\ idle # <<>>
  /\ Head(idle).op = "update_icon"
  /\ Ran(Head(idle))
  /\ remove_fs_icon_fail
  /\ Goto(Main, "upd_save")
  /\ UNCHANGED <<icon, title, visible, running, ready_queue, setup_thread,
                 loop, notifier, idle, status_icon, notification, frame, err, setup,
                 sched, clean, pre, next_id, swallowed, n_ready,
                 n_runs, n_calls, n_clicks, n_native_err>>

\* _update_fs_icon: the file is created, then self.icon.save(f, 'PNG'); with
\* the icon cleared meanwhile the save raises and the callback discards it.
update_fs_icon ==
  /\ pc[Main] = "upd_save"
  /\ icon_path' = mktemp
  /\ IF icon = NoIcon
       THEN /\ files' = [files EXCEPT ![mktemp] = "empty"]
            /\ swallowed' = swallowed + 1
            /\ idle' = callback(idle)
            /\ Goto(Main, "loop")
       ELSE /\ files' = [files EXCEPT ![mktemp] = icon]
            /\ swallowed' = swallowed
            /\ idle' = idle
            /\ Goto(Main, "upd_valid")
  /\ UNCHANGED <<baseVars, loop, notifier, status_icon, notification, frame, err,
                 setup, sched, clean, pre, next_id, last_ran, n_ran,
                 n_ready, budgetVars>>

\* self._icon_valid = True, and back in _update_icon:
\* self._status_icon.set_from_file(self._icon_path)
update_icon_set ==
  /\ pc[Main] = "upd_valid"
  /\ icon_valid' = TRUE
  /\ status_icon' = [status_icon EXCEPT !.file = icon_path]
  /\ idle' = callback(idle)
  /\ Goto(Main, "loop")
  /\ UNCHANGED <<icon, title, visible, running, ready_queue, setup_thread,
                 gtkVars, files, notification, frame, err, setup, histVars, budgetVars>>

(* ------------- click events, loop exit, GtkIcon._finalize --------------- *)
\* _left_click_event / _right_click_event (_gtk.py 58-72) run the user's
\* handler on the loop's thread; the handler stops the icon.
click ==
  /\ Looping
  /\ status_icon.visible
  /\ n_clicks < MaxClicks
  /\ n_clicks' = n_clicks + 1
  /\ Begin(Main, [NoFrame EXCEPT !.op = "stop"], "stop_post")
  /\ UNCHANGED <<baseVars, gtkVars, idle, envVars, setup, next_id, last_ran,
                 n_ran, swallowed, n_ready, n_runs, n_calls,
                 n_unlink_fail, n_native_err>>

\* loop.run() returns once quit() has been called on the loop.
loop_exit ==
  /\ pc[Main] = "loop"
  /\ loop = "quit"
  /\ loop' = "exited"
  /\ Goto(Main, "fin_remove")
  /\ UNCHANGED <<baseVars, icon_path, notifier, idle, envVars, frame, err, setup,
                 histVars, budgetVars>>

\* A _finalize that leaves the icon file alone.
finalize_remove_skip ==
  /\ pc[Main] = "fin_remove"
  /\ LocalStep(Main, "fin_hide")

\* _finalize (gtk.py 107-109): self._remove_fs_icon()
finalize_remove ==
  /\ pc[Main] = "fin_remove"
  /\ remove_fs_icon
  /\ Goto(Main, "fin_hide")
  /\ UNCHANGED <<icon, title, visible, running, ready_queue, setup_thread,
                 loop, notifier, idle, status_icon, notification, frame, err, setup,
                 histVars, n_runs, n_calls, n_clicks, n_native_err>>

finalize_remove_fail ==
  /\ pc[Main] = "fin_remove"
  /\ remove_fs_icon_fail
  /\ Goto(Main, "fin_hide")
  /\ UNCHANGED <<icon, title, visible, running, ready_queue, setup_thread,
                 loop, notifier, idle, status_icon, notification, frame, err, setup,
                 histVars, n_runs, n_calls, n_clicks, n_native_err>>

\* self._notifier.hide(); run returns.
finalize_hide ==
  /\ pc[Main] = "fin_hide"
  /\ notification' = [notification EXCEPT !.shown = FALSE]
  /\ Goto(Main, "idle")
  /\ UNCHANGED <<baseVars, gtkVars, idle, files, status_icon, frame, err, setup,
                 histVars, budgetVars>>

(* --------------------------- specifications ----------------------------- *)
IconStep(t) == icon_store(t) \/ icon_inval(t) \/ icon_branch(t) \/ icon_upd(t)

TitleStep(t) == title_cmp(t) \/ title_store(t) \/ title_branch(t) \/ title_upd(t)

VisibleShowStep(t) ==
  \/ vis_cmp(t) \/ vis_chk_icon(t) \/ vis_chk_valid(t) \/ vis_upd(t)
  \/ vis_show(t) \/ vis_set_true(t)

VisibleHideStep(t) == vis_hide(t) \/ vis_set_false(t)

StopStep(t) == stop_post(t) \/ stop_ident(t) \/ stop_join(t) \/ stop_clear(t)

SetupStep(s) == setup_handler_get(s) \/ setup_handler_call(s)

StartStep == initialize \/ loop_run

LoopStep == Dispatch \/ update_icon_remove \/ update_fs_icon \/ update_icon_set

ExitStep == loop_exit \/ finalize_remove \/ finalize_hide

App1 == 101

\* The properties workload: an application thread sets icon, title and
\* visible while the setup thread shows the icon and the loop of one run
\* serves them.
Next ==
  \/ \E f \in SetterRequests : Call(App1, f)
  \/ \E t \in Threads : IconStep(t) \/ TitleStep(t) \/ VisibleShowStep(t)
                        \/ VisibleHideStep(t) \/ Return(t)
  \/ \E s \in SetupThreads : SetupStep(s)
  \/ run("default")
  \/ StartStep
  \/ LoopStep

Spec == Init /\ [][Next]_vars

\* The lifecycle workload: run is called, with the default setup callback or
\* one that stops the icon, and again after it has returned; an application
\* thread shows the icon and stops it; a click handler stops it.
StopInit == Init /\ title = ""

ShowRequest == Request("visible", "", "", TRUE)

StopNext ==
  \/ \E f \in StopRequests \cup {ShowRequest} : Call(App1, f)
  \/ \E t \in Threads : VisibleShowStep(t) \/ StopStep(t) \/ Return(t)
  \/ \E s \in SetupThreads : SetupStep(s)
  \/ \E k \in {"default", "stop"} : run(k)
  \/ StartStep
  \/ LoopStep
  \/ ExitStep
  \/ click

StopSpec == StopInit /\ [][StopNext]_vars

\* The same workload over the first run only, with fair scheduling: a
\* Python thread that can take its next step eventually does, and the GLib
\* loop keeps dispatching.  Calls, run and clicks are inputs and need not
\* happen.
LiveNext ==
  \/ \E t \in AppThreads : \E f \in StopRequests \cup {ShowRequest} : Call(t, f)
  \/ \E t \in Threads : VisibleShowStep(t) \/ StopStep(t) \/ Return(t)
  \/ \E s \in SetupThreads : SetupStep(s)
  \/ \E k \in {"default", "stop"} : n_runs = 0 /\ run(k)
  \/ StartStep
  \/ LoopStep
  \/ ExitStep
  \/ click

Fairness ==
  /\ \A t \in Threads : WF_vars(VisibleShowStep(t) \/ StopStep(t) \/ Return(t))
  /\ \A s \in SetupThreads : WF_vars(SetupStep(s))
  /\ WF_vars(StartStep)
  /\ WF_vars(LoopStep)
  /\ WF_vars(ExitStep)

LiveSpec == StopInit /\ [][LiveNext]_vars /\ Fairness

\* The notification workload: the setup callback notifies; application
\* threads show the icon, notify, withdraw the notification and set the
\* title; native calls may raise.
NotifyNext ==
  \/ \E t \in AppThreads :
       \E f \in NotifyRequests \cup {ShowRequest}
                 \cup {Request("title", v, "", FALSE) : v \in Titles \ {""}} :
         Call(t, f)
  \/ \E t \in Threads : TitleStep(t) \/ VisibleShowStep(t) \/ notify(t)
                        \/ remove_notification(t) \/ Return(t)
  \/ \E s \in SetupThreads : SetupStep(s)
  \/ run("notify")
  \/ StartStep
  \/ LoopStep
  \/ DispatchRaise

NotifySpec == Init /\ [][NotifyNext]_vars

\* The icon file workload: an application thread changes the icon, shows,
\* hides and stops it; os.unlink may fail.
FileNext ==
  \/ \E f \in {r \in SetterRequests : r.op # "title"} \cup StopRequests : Call(App1, f)
  \/ \E t \in Threads : IconStep(t) \/ VisibleShowStep(t) \/ VisibleHideStep(t)
                        \/ StopStep(t) \/ Return(t)
  \/ \E s \in SetupThreads : SetupStep(s)
  \/ n_runs = 0 /\ run("default")
  \/ StartStep
  \/ LoopStep
  \/ update_icon_remove_fail
  \/ ExitStep
  \/ finalize_remove_fail

FileSpec == StopInit /\ [][FileNext]_vars

\* The embedding workload: run and run_detached are called, one after the
\* other in any combination; the host application runs its own main loop
\* after run_detached; an application thread shows the icon and stops it.
DetachedStep == run_detached_initialize \/ host_loop_run

DetachedNext ==
  \/ \E f \in StopRequests \cup {ShowRequest} : Call(App1, f)
  \/ \E t \in Threads : VisibleShowStep(t) \/ StopStep(t) \/ Return(t)
  \/ \E s \in SetupThreads : SetupStep(s)
  \/ run("default")
  \/ run_detached("default")
  \/ DetachedStep
  \/ StartStep
  \/ LoopStep
  \/ ExitStep

DetachedSpec == StopInit /\ [][DetachedNext]_vars

\* The failing start workload, with fair scheduling: run or run_detached is
\* called, and called again by a caller that caught the error; the
\* initialisation of the backend may fail; an application thread stops the
\* icon.  Every thread that can take a step eventually does.
FailNext ==
  \/ \E f \in StopRequests : Call(App1, f)
  \/ \E t \in Threads : VisibleShowStep(t) \/ StopStep(t) \/ Return(t)
  \/ \E s \in SetupThreads : SetupStep(s)
  \/ run("default")
  \/ run_detached("default")
  \/ initialize_fail
  \/ DetachedStep
  \/ StartStep
  \/ LoopStep
  \/ ExitStep

FailFairness ==
  /\ \A t \in Threads : WF_vars(VisibleShowStep(t) \/ StopStep(t) \/ Return(t))
  /\ \A s \in SetupThreads : WF_vars(SetupStep(s))
  /\ WF_vars(StartStep \/ initialize_fail)
  /\ WF_vars(DetachedStep)
  /\ WF_vars(LoopStep)
  /\ WF_vars(ExitStep)

FailSpec == StopInit /\ [][FailNext]_vars /\ FailFairness

(* ------------------------------ claims ---------------------------------- *)
\* A call that no other thread's call overlaps, observed as it returns.
Returned(t, op) == pc[t] = "ret" /\ frame[t].op = op /\ clean[t]

\* C1: visible = True on a hidden icon that has no image fails with
\* ValueError: the call schedules no backend operation (_update_icon, _show)
\* and visible is still False when it returns.
C1_ShowWithoutIconFails ==
  \A t \in Threads :
    (Returned(t, "visible") /\ frame[t].flag /\ pre[t].icon = NoIcon /\ ~pre[t].visible)
      => (err[t] = "ValueError" /\ sched[t] = <<>> /\ ~visible)

C1_Witness ==
  \E t \in AppThreads :
    /\ Returned(t, "visible") /\ frame[t].flag
    /\ pre[t].icon = NoIcon /\ ~pre[t].visible
    /\ err[t] = "ValueError"
    /\ pc[Main] = "loop"

\* C2: icon = None on a visible icon hides it: the call requests exactly one
\* backend _hide, and on return visible is False and icon is empty.
C2_ClearIconHides ==
  \A t \in Threads :
    (Returned(t, "icon") /\ frame[t].val = NoIcon /\ pre[t].visible)
      => (~visible /\ icon = NoIcon /\ sched[t] = <<"hide">>)

C2_Witness ==
  \E t \in AppThreads :
    /\ Returned(t, "icon") /\ frame[t].val = NoIcon /\ pre[t].visible
    /\ ~visible
    /\ \E i \in 1..Len(idle) : idle[i].op = "hide"

\* The setup threads that have passed the ready gate (their queue.get()
\* has returned, so the setup callback is being or has been invoked).
PastGate == {s \in SetupThreads : pc[s] \notin {"unborn", "waiting"}}

StopReturned(t) == pc[t] = "ret" /\ frame[t].op = "stop" /\ err[t] = "none"

\* C4 as stated: when stop() returns to a thread other than the event-loop
\* thread (here an application thread), the loop started by run has already
\* exited.
C4_StopWaitsForLoop ==
  \A t \in AppThreads : StopReturned(t) => loop = "exited"

\* C4 as amended: stop() queues the request to quit the loop and waits for
\* the setup thread, not for the loop: when it returns to a thread other
\* than the setup thread, that setup thread has ended (only a setup thread
\* returns without having joined).
C4_StopJoinsSetupThread ==
  \A t \in Threads :
    StopReturned(t) =>
      /\ sched[t] = <<"stop">>
      /\ IF frame[t].jt = NoThread THEN t \in SetupThreads
                                   ELSE pc[frame[t].jt] = "finished"

C4_Witness ==
  \E t \in AppThreads :
    /\ StopReturned(t)
    /\ frame[t].jt # NoThread /\ pc[frame[t].jt] = "finished"
    /\ loop = "running"

\* C5 as stated: a stop() called on the event-loop thread skips the join on
\* the setup thread.
C5_LoopThreadSkipsJoin == pc[Main] # "stop_join"

\* C5 as amended: a stop() called on the event-loop thread (from a click
\* handler) does join the setup thread, the join being skipped only when the
\* caller is the setup thread itself; it still returns, because the setup
\* thread ends without waiting for the loop.
C5_LoopThreadStopReturns ==
  /\ [](pc[Main] = "stop_clear" =>
          frame[Main].jt # NoThread /\ pc[frame[Main].jt] = "finished")
  /\ (pc[Main] = "stop_post") ~> (pc[Main] = "ret")

C5_Witness ==
  /\ StopReturned(Main)
  /\ frame[Main].jt # NoThread
  /\ pc[frame[Main].jt] = "finished"

\* A stop request is queued on a loop that run has started.
StopRequested == loop = "running" /\ \E i \in 1..Len(idle) : idle[i].op = "stop"

\* C6: once stop() has been invoked on a running loop, the loop eventually
\* quits and run returns to its caller.
C6_StopEndsRun == StopRequested ~> (pc[Main] = "idle")

C6_Witness == pc[Main] = "idle" /\ loop = "exited" /\ n_runs = 1 /\ last_ran > 0

\* C7: an error raised inside a backend operation is fatal to the event
\* loop: once one has been raised, the loop is no longer running.
C7_BackendErrorEndsLoop == swallowed > 0 => loop # "running"

\* The native objects: the status icon, the notification, the icon file.
NativeChange ==
  \/ status_icon' # status_icon
  \/ notification' # notification
  \/ files' # files
  \/ icon_path' # icon_path

C9_DispatchInOrder == [][n_ran' # n_ran => last_ran' > last_ran]_vars

C9_Witness == n_ran >= 3 /\ last_ran = n_ran /\ Len(idle) > 0

\* The temporary icon files on the filesystem.
IconFiles == {p \in Paths : files[p] # "absent"}

\* C10 as stated: at most one temporary icon file exists at any time, also
\* when deleting the previous file fails.
C10_AtMostOneFile == Cardinality(IconFiles) <= 1

\* C10 as amended: the previous file is unlinked before the new one is
\* created, so at most one temporary icon file exists as long as no unlink
\* has failed; every failed unlink can leave one more file behind, and
\* _icon_path, when set, names a file that exists.
C10_OneFilePerFailedUnlink ==
  /\ Cardinality(IconFiles) <= 1 + n_unlink_fail
  /\ icon_path # NoPath => icon_path \in IconFiles

C10_Witness ==
  /\ n_unlink_fail = 0
  /\ n_ran >= 2
  /\ Cardinality(IconFiles) = 1
  /\ files[icon_path] = "img2"

\* run has returned to its caller.
RunReturned == pc[Main] = "idle" /\ n_runs > 0

\* C11 as stated: when run returns, no temporary icon file remains, also
\* when a deletion has failed.
C11_NoFileAfterRun == RunReturned => IconFiles = {}

\* C11 as amended: _finalize tries to unlink the current icon file and
\* discards a failure, so run returns without error; the only files that
\* remain are those whose unlink failed (one per failure at most), none when
\* no unlink failed, and the icon is marked stale.
C11_FinalizeUnlinksIconFile ==
  RunReturned =>
    /\ Cardinality(IconFiles) <= n_unlink_fail
    /\ ~icon_valid
    /\ err[Main] = "none"

C11_Witness ==
  /\ RunReturned
  /\ status_icon.file # NoPath
  /\ IconFiles = {}
  /\ n_unlink_fail = 0

\* A title refresh is queued for the loop.
PendingTitle == \E i \in 1..Len(idle) : idle[i].op = "update_title"

\* C12: a title set while the icon is hidden is deferred, not lost: the
\* visible = True that next shows the icon issues an _update_title whenever
\* the backend does not have the current title and no refresh is queued.
C12_ShowRefreshesTitle ==
  \A t \in Threads :
    ( /\ Returned(t, "visible") /\ frame[t].flag /\ err[t] = "none"
      /\ ~pre[t].visible
      /\ pre[t].title = "B" /\ title = "B"
      /\ status_icon.title # title
      /\ ~PendingTitle )
      => \E i \in 1..Len(sched[t]) : sched[t][i] = "update_title"

\* C13: a title assignment that no other call overlaps triggers no backend
\* refresh when the value equals the current title, visible or hidden, and
\* exactly one _update_title when the value differs and the icon is visible;
\* on return title holds the value.
C13_TitleRefreshOnChange ==
  \A t \in Threads :
    Returned(t, "title") =>
      /\ title = frame[t].val
      /\ pre[t].title = frame[t].val => sched[t] = <<>>
      /\ (pre[t].title # frame[t].val /\ pre[t].visible) => sched[t] = <<"update_title">>

C13_Witness ==
  /\ Returned(App1, "title")
  /\ pre[App1].title = frame[App1].val
  /\ pre[App1].visible
  /\ status_icon.title = "B"
  /\ sched[App1] = <<>>

\* The setup threads that have been started, and those blocked on the gate.
Started == {s \in SetupThreads : pc[s] # "unborn"}

Waiting == {s \in SetupThreads : pc[s] = "waiting"}

\* C14 as stated: over the icon's lifetime, whatever the sequence of run,
\* run_detached and stop calls, the ready signal is produced once only.
C14_ReadyOncePerLifetime == n_ready <= 1

\* C14 as amended: the rendezvous is per call of run or run_detached, not
\* per lifetime: every call starts one setup thread and, once initialised,
\* has produced one ready token; a token in the queue always has a setup
\* thread still waiting for it, so none is left without a consumer.
C14_ReadyOncePerRun ==
  /\ Cardinality(Started) = n_runs
  /\ n_ready = IF pc[Main] \in {"run_init", "det_init"} THEN n_runs - 1 ELSE n_runs
  /\ ready_queue <= Cardinality(Waiting)

C14_Witness ==
  /\ n_runs = 2
  /\ n_ready = 2
  /\ ready_queue = 0
  /\ \A s \in SetupThreads : pc[s] = "finished"
  /\ pc[Main] = "host"
  /\ loop = "exited"

\* The loop dispatches a queued _notify and the native call does not raise.
NotifyRuns ==
  /\ idle # <<>>
  /\ Head(idle).op = "notify"
  /\ n_ran' = n_ran + 1
  /\ swallowed' = swallowed

Initialized ==
  /\ setup_thread = n_runs
  /\ pc[setup_thread] # "unborn"
  /\ notifier
  /\ n_ready = n_runs

\* C16: run_detached initialises as run does (setup thread started, backend
\* initialised, ready signalled) and then returns to its caller: its
\* initialisation step is followed by the return, with no loop created or
\* entered and no wait for stop.
C16_DetachedReturns ==
  /\ [](pc[Main] \in {"run_loop", "host"} => Initialized)
  /\ [](pc[Main] = "host" => loop \in {"none", "exited"})
  /\ [][pc[Main] = "det_init" /\ pc'[Main] # "det_init"
          => pc'[Main] = "host" /\ loop' = loop /\ running']_vars

C16_Witness ==
  /\ pc[Main] = "host"
  /\ loop = "none"
  /\ n_calls = 0
  /\ pc[setup_thread] = "finished"
  /\ visible

\* The icon file holds the image currently set.
FileFresh == icon_path # NoPath /\ files[icon_path] = icon

\* An _update_icon is queued or in progress on the loop.
PendingIcon == \E i \in 1..Len(idle) : idle[i].op = "update_icon"

\* C17: assigning an image while the icon is hidden issues no backend call;
\* the visible = True that follows issues _update_icon and then _show, so
\* that the native icon shows the latest image: it leaves the _update_icon
\* out only when the file already holds the current image or a refresh
\* queued earlier will run before the _show.
C17_HiddenIconRefreshedOnShow ==
  \A t \in Threads :
    /\ (Returned(t, "icon") /\ frame[t].val # NoIcon /\ ~pre[t].visible)
         => sched[t] = <<>>
    /\ (Returned(t, "visible") /\ frame[t].flag /\ err[t] = "none" /\ ~pre[t].visible)
         => \/ sched[t] = <<"update_icon", "show">>
            \/ sched[t] = <<"show">> /\ (FileFresh \/ PendingIcon)

\* No thread is inside a public method of the icon.
NoCall == \A t \in Threads : ~InCall(t)

\* C18: whenever visible is True an icon image is set, whatever the
\* interleaving of the icon and visible setters; observed between calls,
\* since the icon setter itself clears the image before it hides the icon.
C18_VisibleImpliesIcon == (NoCall /\ visible) => icon # NoIcon

\* The loop has run every idle task queued so far and no call is in
\* progress that could queue another or still write the flag.
Settled == NoCall /\ idle = <<>> /\ pc[Main] = "loop" /\ loop = "running"

\* C19: once every queued idle task has executed, the native status icon's
\* visibility equals the visible flag, whatever the interleaving of the
\* visible setters.
C19_NativeMatchesVisible == Settled => status_icon.visible = visible

\* C20: whenever _icon_valid is True, _icon_path names an existing file
\* that holds the image currently set, so that a later show does not display
\* a stale image; observed between calls, since the icon setter stores the
\* image one statement before it clears _icon_valid.
C20_ValidMeansFresh == (NoCall /\ icon_valid) => FileFresh

\* C21: also when the backend step of run or run_detached fails before it
\* signals ready, no setup thread stays blocked on the ready gate: every
\* setup thread that has been started eventually terminates.
C21_SetupThreadTerminates ==
  \A s \in SetupThreads : (pc[s] = "waiting") ~> (pc[s] = "finished")

=============================================================================
